---- MODULE Spec2Model ----
(***************************************************************************)
(* The chat session controller of nila's frontend: the Chat component      *)
(* (message log, input field, typing flag, history fetch, send pipeline,   *)
(* staged reveal of reply bubbles, logout), the token kept in localStorage *)
(* and the Login form that stores a token and routes back to the chat.     *)
(***************************************************************************)
EXTENDS Integers, Sequences, FiniteSets, TLC

\* ---------------------------------------------------------------- bounds
MaxSends == 2        \* sends accepted per activation, and send/timer slots
MaxNow == 1          \* readings of the clock
MaxStaleFetch == 2   \* history fetches in flight, with those of torn-down activations

\* ---------------------------------------------------------------- values
\* what the user may type: nothing, white space only, a padded word
Inputs == { <<>>, <<" ">>, <<" ", "a", " ">> }

\* what POST /chat may return in response.data.messages
Batches == { <<>>, << <<"x">> >>, << <<"x">>, <<"y">> >> }

Message(id, text, sender) == [id |-> id, text |-> text, sender |-> sender]

\* what GET /history may return: stored messages, with ids given by the server
Histories ==
    { <<>>,
      <<Message(-2, <<"a">>, "user"), Message(-1, <<"x">>, "nila")>> }

Outcomes == {"ok", "401", "err"}

NoToken == "null"
Token == "tok"

\* String.prototype.trim: strip the white space at both ends
RECURSIVE TrimStart(_)
TrimStart(s) == IF s # <<>> /\ Head(s) = " " THEN TrimStart(Tail(s)) ELSE s

RECURSIVE TrimEnd(_)
TrimEnd(s) ==
    IF s # <<>> /\ s[Len(s)] = " " THEN TrimEnd(SubSeq(s, 1, Len(s) - 1)) ELSE s

trim(s) == TrimEnd(TrimStart(s))

IsPrefix(s, t) == Len(s) <= Len(t) /\ SubSeq(t, 1, Len(s)) = s

\* ----------------------------------------------------------------- state
VARIABLES
    token,       \* localStorage 'token': NoToken or a credential
    route,       \* the route shown: "chat" or "login"
    mounted,     \* a Chat component instance is mounted
    messages,    \* useState<Message[]>: the message log of the instance
    inputText,   \* useState: the input field
    isTyping,    \* useState: the typing flag
    hist,        \* the history fetch of the mounted instance is in flight
    staleHist,   \* history fetches of unmounted instances still in flight
    sends,       \* per slot: a POST /chat in flight or a reveal timer pending
    sent,        \* sends accepted by the mounted instance
    now,         \* Date.now()
    armed,       \* per slot: Date.now() when its pending timer was set
    lastOp       \* the handler that ran last and the signals it emitted

vars == <<token, route, mounted, messages, inputText, isTyping, hist, staleHist,
          sends, sent, now, armed, lastOp>>

Slots == 1..MaxSends

\* a slot: idle, a POST /chat in flight, or a reveal timer pending (bubbles,
\* index: the arguments of its closure); stale: the instance that owns the
\* closure has unmounted
Idle == [phase |-> "idle", stale |-> FALSE, bubbles |-> <<>>, index |-> 0]
InFlight == [phase |-> "inflight", stale |-> FALSE, bubbles |-> <<>>, index |-> 0]
Timer(stale, bubbles, index) ==
    [phase |-> "timer", stale |-> stale, bubbles |-> bubbles, index |-> index]

\* op: the handler; live: it ran for the mounted instance; nav: it called
\* navigate('/login'); call: it issued GET /history or POST /chat
Op(op, live, nav, call) == [op |-> op, live |-> live, nav |-> nav, call |-> call]

\* a handler that also saw the payload of the response it handled
OpData(op, live, nav, call, data) ==
    [op |-> op, live |-> live, nav |-> nav, call |-> call, data |-> data]

\* variant: every rejected call counts as an authorization failure
IsUnauthorizedAny(outcome) == outcome # "ok"

\* `axios.isAxiosError(error) && error.response?.status === 401`
IsUnauthorized(outcome) == outcome = "401"

\* variant: the first stored message is lost
LoadedLogTail(prev, data) == IF data = <<>> THEN data ELSE Tail(data)

\* setMessages(response.data): the log becomes the returned sequence
LoadedLog(prev, data) == data

\* variant: `[msg, ...prev]`
PrependMsg(prev, msg) == <<msg>> \o prev

\* setMessages(prev => [...prev, msg])
AppendMsg(prev, msg) == Append(prev, msg)

\* variant: the credential check never fires
NoCredentialNever(tok) == FALSE

\* `!token`: getItem found no credential
NoCredential(tok) == tok = NoToken

\* variant: `!inputText`, without the trim
IsBlankNoTrim(text) == text = <<>>

\* `!inputText.trim()`
IsBlank(text) == trim(text) = <<>>

\* variant: state that outlives the component instance
setStateAlways(stale, cur, new) == new

\* A state setter returned by useState belongs to one component instance: React
\* applies the update to that instance while it is mounted and drops it otherwise.
setState(stale, cur, new) == IF stale THEN cur ELSE new

\* every pending callback of an instance outlives it: nothing is cancelled
StaleAll(ss) ==
    [s \in DOMAIN ss |->
        IF ss[s].phase = "idle" THEN ss[s] ELSE [ss[s] EXCEPT !.stale = TRUE]]

\* navigate('/login'): the router leaves /chat and the Chat instance unmounts;
\* ss, h and sh are the slots and the history fetches as the handler left them
NavigateLogin(ss, h, sh) ==
    /\ route' = "login"
    /\ mounted' = FALSE
    /\ sends' = StaleAll(ss)
    /\ hist' = FALSE
    /\ staleHist' = sh + (IF h THEN 1 ELSE 0)

Init ==
    /\ token \in {NoToken, Token}
    /\ route = "chat"
    /\ mounted = FALSE
    /\ messages = <<>>
    /\ inputText = <<>>
    /\ isTyping = FALSE
    /\ hist = FALSE
    /\ staleHist = 0
    /\ sends = [s \in Slots |-> Idle]
    /\ sent = 0
    /\ now = 0
    /\ armed = [s \in Slots |-> 0]
    /\ lastOp = Op("init", FALSE, FALSE, FALSE)

\* --------------------------------------------------------------- actions

\* Chat mounts with its initial state and its effect runs fetchHistory up to
\* the await, reading tok from the store
ChatMounts(tok) ==
    /\ messages' = <<>>
    /\ inputText' = <<>>
    /\ isTyping' = FALSE
    /\ sent' = 0
    /\ IF NoCredential(tok)
       THEN /\ NavigateLogin(sends, FALSE, staleHist)
            /\ lastOp' = Op("activate", TRUE, TRUE, FALSE)
       ELSE /\ staleHist < MaxStaleFetch
            /\ route' = "chat"
            /\ mounted' = TRUE
            /\ hist' = TRUE
            /\ lastOp' = Op("activate", TRUE, FALSE, TRUE)
            /\ UNCHANGED <<sends, staleHist>>

\* the page loads: route / leads to /chat
Activate ==
    /\ route = "chat"
    /\ ~mounted
    /\ ChatMounts(token)
    /\ UNCHANGED <<token, now, armed>>

\* fetchHistory after its await: the response to GET /history arrives, for the
\* mounted instance or (stale) for an instance that has since unmounted
HistoryResponse(stale, outcome, data) ==
    /\ IF stale THEN staleHist > 0 ELSE hist
    /\ LET h == IF stale THEN hist ELSE FALSE
           sh == IF stale THEN staleHist - 1 ELSE staleHist
       IN IF outcome = "ok"
          THEN /\ messages' = setState(stale, messages, LoadedLog(messages, data))
               /\ hist' = h
               /\ staleHist' = sh
               /\ lastOp' = OpData("histOk", ~stale, FALSE, FALSE, data)
               /\ UNCHANGED <<token, route, mounted, sends>>
          ELSE /\ lastOp' = Op(IF outcome = "401" THEN "hist401" ELSE "histErr",
                               ~stale, IsUnauthorized(outcome), FALSE)
               /\ UNCHANGED messages
               /\ IF IsUnauthorized(outcome)
                  THEN /\ token' = NoToken
                       /\ NavigateLogin(sends, h, sh)
                  ELSE /\ hist' = h
                       /\ staleHist' = sh
                       /\ UNCHANGED <<token, route, mounted, sends>>
    /\ UNCHANGED <<inputText, isTyping, sent, now, armed>>

\* onChange of the input field
SetInputText(text) ==
    /\ mounted
    /\ inputText' = text
    /\ lastOp' = Op("input", TRUE, FALSE, FALSE)
    /\ UNCHANGED <<token, route, mounted, messages, isTyping, hist, staleHist,
                   sends, sent, now, armed>>

FreeSlot == CHOOSE s \in Slots : sends[s].phase = "idle"

\* handleSend up to its await
HandleSend ==
    /\ mounted
    /\ IF NoCredential(token)
       THEN /\ NavigateLogin(sends, hist, staleHist)
            /\ lastOp' = Op("sendNoToken", TRUE, TRUE, FALSE)
            /\ UNCHANGED <<messages, inputText, isTyping, sent>>
       ELSE IF IsBlank(inputText)
       THEN /\ lastOp' = Op("sendBlank", TRUE, FALSE, FALSE)
            /\ UNCHANGED <<route, mounted, messages, inputText, isTyping, hist,
                           staleHist, sends, sent>>
       ELSE /\ sent < MaxSends
            /\ \E s \in Slots : sends[s].phase = "idle"
            /\ LET userMsg == Message(now, inputText, "user")
               IN /\ messages' = AppendMsg(messages, userMsg)
                  /\ sends' = [sends EXCEPT ![FreeSlot] = InFlight]
            /\ inputText' = <<>>
            /\ isTyping' = TRUE
            /\ sent' = sent + 1
            /\ lastOp' = Op("send", TRUE, FALSE, TRUE)
            /\ UNCHANGED <<route, mounted, hist, staleHist>>
    /\ UNCHANGED <<token, now, armed>>

\* variant: an empty batch leaves the typing flag as it is
displayBubblesKeepsTyping(stale, typing, bubbles, index) ==
    IF index >= Len(bubbles)
    THEN [task |-> Idle, typing |-> typing]
    ELSE [task |-> Timer(stale, bubbles, index), typing |-> typing]

\* variant: the timer is set for the last fragment of the batch
displayBubblesLast(stale, typing, bubbles, index) ==
    IF index >= Len(bubbles)
    THEN [task |-> Idle, typing |-> setState(stale, typing, FALSE)]
    ELSE [task |-> Timer(stale, bubbles, Len(bubbles) - 1), typing |-> typing]

\* displayBubblesWithDelay(bubbles, index) called with the typing flag at
\* typing: what becomes of the slot and of the flag
displayBubblesWithDelay(stale, typing, bubbles, index) ==
    IF index >= Len(bubbles)
    THEN [task |-> Idle, typing |-> setState(stale, typing, FALSE)]
    ELSE [task |-> Timer(stale, bubbles, index), typing |-> typing]

\* handleSend after its await: the response to POST /chat arrives
SendResponse(s, outcome, replyBubbles) ==
    /\ sends[s].phase = "inflight"
    /\ LET stale == sends[s].stale
       IN IF outcome = "ok"
          THEN LET d == displayBubblesWithDelay(stale, isTyping, replyBubbles, 0)
               IN /\ sends' = [sends EXCEPT ![s] = d.task]
                  /\ armed' = [armed EXCEPT ![s] = IF d.task.phase = "timer" THEN now ELSE 0]
                  /\ isTyping' = d.typing
                  /\ lastOp' = OpData("sendOk", ~stale, FALSE, FALSE, replyBubbles)
                  /\ UNCHANGED <<route, mounted, hist, staleHist>>
          ELSE /\ isTyping' = setState(stale, isTyping, FALSE)
               /\ lastOp' = Op(IF outcome = "401" THEN "send401" ELSE "sendErr",
                               ~stale, IsUnauthorized(outcome), FALSE)
               /\ UNCHANGED armed
               /\ IF IsUnauthorized(outcome)
                  THEN NavigateLogin([sends EXCEPT ![s] = Idle], hist, staleHist)
                  ELSE /\ sends' = [sends EXCEPT ![s] = Idle]
                       /\ UNCHANGED <<route, mounted, hist, staleHist>>
    /\ UNCHANGED <<token, messages, inputText, sent, now>>

\* variant: text: bubbles[0]
NewMsgFirst(bubbles, index) == Message(now + index, bubbles[1], "nila")

\* the Message a reveal mints for bubbles[index] (0-based in the source)
NewMsg(bubbles, index) == Message(now + index, bubbles[index + 1], "nila")

\* variant: no setIsTyping(false) after the last fragment
RevealNextKeepsTyping(stale, typing, bubbles, index) ==
    IF index < Len(bubbles) - 1
    THEN displayBubblesWithDelay(stale, setState(stale, typing, TRUE), bubbles, index + 1)
    ELSE [task |-> Idle, typing |-> typing]

\* variant: no recursion, the reveal stops after one fragment
RevealNextStops(stale, typing, bubbles, index) ==
    [task |-> Idle, typing |-> setState(stale, typing, FALSE)]

\* the end of the timer callback: go on with the next fragment or stop
RevealNext(stale, typing, bubbles, index) ==
    IF index < Len(bubbles) - 1
    THEN displayBubblesWithDelay(stale, setState(stale, typing, TRUE), bubbles, index + 1)
    ELSE [task |-> Idle, typing |-> setState(stale, typing, FALSE)]

\* the callback handed to setTimeout by displayBubblesWithDelay runs
TimerFire(s) ==
    /\ sends[s].phase = "timer"
    /\ LET stale == sends[s].stale
           bubbles == sends[s].bubbles
           index == sends[s].index
           newMsg == NewMsg(bubbles, index)
           d == RevealNext(stale, isTyping, bubbles, index)
       IN /\ messages' = setState(stale, messages, AppendMsg(messages, newMsg))
          /\ sends' = [sends EXCEPT ![s] = d.task]
          /\ armed' = [armed EXCEPT ![s] = IF d.task.phase = "timer" THEN now ELSE 0]
          /\ isTyping' = d.typing
          /\ lastOp' = Op("reveal", ~stale, FALSE, FALSE)
    /\ UNCHANGED <<token, route, mounted, inputText, hist, staleHist, sent, now>>

\* variant: no localStorage.removeItem('token')
HandleLogoutKeepsToken ==
    /\ mounted
    /\ NavigateLogin(sends, hist, staleHist)
    /\ lastOp' = Op("logout", TRUE, TRUE, FALSE)
    /\ UNCHANGED <<token, messages, inputText, isTyping, sent, now, armed>>

HandleLogout ==
    /\ mounted
    /\ token' = NoToken
    /\ NavigateLogin(sends, hist, staleHist)
    /\ lastOp' = Op("logout", TRUE, TRUE, FALSE)
    /\ UNCHANGED <<messages, inputText, isTyping, sent, now, armed>>

\* Login's handleLogin after POST /token succeeded: the token is stored and
\* navigate('/chat') mounts Chat
HandleLogin ==
    /\ route = "login"
    /\ token' = Token
    /\ ChatMounts(Token)
    /\ UNCHANGED <<now, armed>>

\* localStorage is shared by every tab of the origin: the logout of a Chat in
\* another tab removes the token under this one
OtherTabLogout ==
    /\ token # NoToken
    /\ token' = NoToken
    /\ lastOp' = Op("otherTabLogout", FALSE, FALSE, FALSE)
    /\ UNCHANGED <<route, mounted, messages, inputText, isTyping, hist, staleHist,
                   sends, sent, now, armed>>

\* the clock advances
Tick ==
    /\ now < MaxNow
    /\ now' = now + 1
    /\ lastOp' = Op("tick", FALSE, FALSE, FALSE)
    /\ UNCHANGED <<token, route, mounted, messages, inputText, isTyping, hist,
                   staleHist, sends, sent, armed>>

Next ==
    \/ Activate
    \/ \E stale \in BOOLEAN, o \in Outcomes, d \in Histories :
           HistoryResponse(stale, o, d)
    \/ \E t \in Inputs : SetInputText(t)
    \/ HandleSend
    \/ \E s \in Slots, o \in Outcomes, b \in Batches : SendResponse(s, o, b)
    \/ \E s \in Slots : TimerFire(s)
    \/ HandleLogout
    \/ HandleLogin
    \/ OtherTabLogout
    \/ Tick

Spec == Init /\ [][Next]_vars

\* timers fire and requests to POST /chat are answered (or fail), slot by slot
Fairness ==
    \A s \in Slots :
        /\ WF_vars(TimerFire(s))
        /\ WF_vars(\E o \in Outcomes \ {"401"}, b \in Batches : SendResponse(s, o, b))

\* the controller is never torn down: no logout, here or in another tab, and
\* no 401
LiveNext ==
    \/ Activate
    \/ \E o \in Outcomes \ {"401"}, d \in Histories : HistoryResponse(FALSE, o, d)
    \/ \E t \in Inputs : SetInputText(t)
    \/ HandleSend
    \/ \E s \in Slots, o \in Outcomes \ {"401"}, b \in Batches : SendResponse(s, o, b)
    \/ \E s \in Slots : TimerFire(s)
    \/ Tick

LiveSpec == Init /\ [][LiveNext]_vars /\ Fairness

\* setTimeout(callback, delay) with delay >= 400: the callback runs only after
\* Date.now() has moved on from the reading at which the timer was set
TimedTimerFire(s) ==
    /\ now > armed[s]
    /\ TimerFire(s)

\* the handlers of Next, with the timers kept to their delay
TimedNext ==
    \/ Activate
    \/ \E stale \in BOOLEAN, o \in Outcomes, d \in Histories :
           HistoryResponse(stale, o, d)
    \/ \E t \in Inputs : SetInputText(t)
    \/ HandleSend
    \/ \E s \in Slots, o \in Outcomes, b \in Batches : SendResponse(s, o, b)
    \/ \E s \in Slots : TimedTimerFire(s)
    \/ HandleLogout
    \/ HandleLogin
    \/ OtherTabLogout
    \/ Tick

ClockSpec == Init /\ [][TimedNext]_vars

\* ---------------------------------------------------------------- claims

AllIdle == \A s \in Slots : sends[s].phase = "idle"
LivePending(s) == sends[s].phase # "idle" /\ ~sends[s].stale
NoLivePending == \A s \in Slots : ~LivePending(s)
SendOps == {"send", "sendBlank", "sendNoToken"}
CompletionOps == {"histOk", "hist401", "histErr", "sendOk", "send401", "sendErr"}
\* the user messages minted by this instance (the server's ids are negative)
Minted == {i \in 1..Len(messages) : messages[i].sender = "user" /\ messages[i].id >= 0}

\* C1: a 401 on a privileged call (history fetch or send) of the mounted
\* controller removes the token from the store and signals the redirect.
C1_AuthFailureClearsSession ==
    [][(lastOp'.op \in {"hist401", "send401"} /\ lastOp'.live)
          => (token' = NoToken /\ lastOp'.nav /\ route' = "login")]_vars

\* C2: when a reveal timer of a torn-down controller fires, the message log and
\* the typing flag stay as they are (of the unmounted instance and of any
\* instance mounted since).
C2_StaleRevealMutatesNothing ==
    [][(lastOp'.op = "reveal" /\ ~lastOp'.live)
          => (messages' = messages /\ isTyping' = isTyping)]_vars

C2_Witness ==
    /\ lastOp.op = "reveal" /\ ~lastOp.live
    /\ ~mounted
    /\ \E s \in Slots : sends[s].phase = "timer" /\ sends[s].index = 1

\* C3: when a history fetch or a send of a torn-down controller completes, the
\* message log, the typing flag and the stored token stay as they are.
C3_StaleCompletionMutatesNothing ==
    [][(lastOp'.op \in CompletionOps /\ ~lastOp'.live)
          => (messages' = messages /\ isTyping' = isTyping /\ token' = token)]_vars

\* C4: a batch handed to the player starts at its first fragment, and every
\* reveal of a mounted controller appends exactly one assistant Message whose
\* text is the fragment under the cursor, then moves the cursor by one or stops
\* after the last fragment.
C4_RevealsBatchInOrder ==
    /\ [][(lastOp'.op = "sendOk" /\ lastOp'.live) =>
            /\ messages' = messages
            /\ \E s \in Slots :
                 /\ sends[s] = InFlight
                 /\ \/ sends'[s] = Idle
                    \/ /\ sends'[s].phase = "timer"
                       /\ sends'[s].bubbles # <<>>
                       /\ sends'[s].index = 0
                       /\ ~sends'[s].stale
                 /\ \A r \in Slots \ {s} : sends'[r] = sends[r]]_vars
    /\ [][(lastOp'.op = "reveal" /\ lastOp'.live) =>
            \E s \in Slots :
              LET b == sends[s].bubbles
                  i == sends[s].index
              IN /\ sends[s].phase = "timer" /\ ~sends[s].stale
                 /\ i + 1 <= Len(b)
                 /\ Len(messages') = Len(messages) + 1
                 /\ IsPrefix(messages, messages')
                 /\ messages'[Len(messages')].sender = "nila"
                 /\ messages'[Len(messages')].text = b[i + 1]
                 /\ sends'[s] = IF i + 1 < Len(b) THEN Timer(FALSE, b, i + 1) ELSE Idle
                 /\ \A r \in Slots \ {s} : sends'[r] = sends[r]]_vars

C4_Witness ==
    /\ lastOp.op = "reveal" /\ lastOp.live
    /\ AllIdle
    /\ Len(messages) >= 3
    /\ messages[Len(messages) - 2].sender = "user"
    /\ messages[Len(messages) - 1] \in
           {Message(t, <<"x">>, "nila") : t \in 0..MaxNow}
    /\ messages[Len(messages)] \in
           {Message(t, <<"y">>, "nila") : t \in 1..(MaxNow + 1)}

\* C5: while the first send of a controller is the only one, the typing flag is
\* true as long as its call is in flight or a reveal of its batch is pending,
\* and false once nothing of it is pending (the last fragment is appended).
C5_TypingDuringSingleSend ==
    (sent = 1 /\ mounted) => (isTyping <=> ~NoLivePending)

C5_Witness ==
    /\ sent = 1 /\ mounted
    /\ lastOp.op = "reveal"
    /\ NoLivePending
    /\ ~isTyping
    /\ Len(messages) >= 3
    /\ messages[Len(messages)].text = <<"y">>

\* C6: under fairness of timers and responses, and with the controller never
\* torn down, a send in flight is answered, a pending reveal of fragment i leads
\* to fragment i being the last Message of the log with the reveal of fragment
\* i+1 pending (nothing pending after the last one), and the controller keeps
\* reaching a state with nothing pending and typing off.
C6_EveryFragmentRevealed ==
    /\ \A s \in Slots :
         (sends[s] = InFlight) ~> (sends[s] # InFlight)
    /\ \A s \in Slots : \A b \in Batches : \A i \in 0..(Len(b) - 1) :
         (sends[s] = Timer(FALSE, b, i))
            ~> /\ sends[s] = (IF i + 1 < Len(b) THEN Timer(FALSE, b, i + 1) ELSE Idle)
               /\ lastOp.op = "reveal"
               /\ messages # <<>>
               /\ messages[Len(messages)].sender = "nila"
               /\ messages[Len(messages)].text = b[i + 1]
    /\ []<>(~mounted \/ (NoLivePending /\ ~isTyping))

C6_Witness ==
    /\ mounted
    /\ lastOp.op = "reveal" /\ lastOp.live
    /\ NoLivePending /\ ~isTyping
    /\ sent = MaxSends

\* C7: a send attempted while the input trims to nothing leaves the message log
\* as it is and issues no call.
C7_BlankSendIsInert ==
    [][(lastOp'.op \in SendOps /\ trim(inputText) = <<>>)
          => /\ messages' = messages
             /\ ~lastOp'.call
             /\ \A s \in Slots : sends'[s].phase = sends[s].phase]_vars

C7_Witness ==
    /\ lastOp.op = "sendBlank"
    /\ inputText = <<" ">>
    /\ token # NoToken

C9_AppendOnly ==
    [][(mounted /\ mounted') => IsPrefix(messages, messages')]_vars

\* C10: the user Message of every accepted send is in the message log whatever
\* the outcome of its call, and a failed call leaves the log as it is with the
\* typing flag off.
C10_OptimisticMessageKept ==
    /\ [](Cardinality(Minted) = sent)
    /\ [][(lastOp'.op \in {"send401", "sendErr"} /\ lastOp'.live)
            => (messages' = messages /\ ~isTyping')]_vars

\* C11: handleLogout, whatever is pending (nothing, a send in flight, the
\* history fetch in flight, a reveal timer), leaves the store without a token
\* and signals the redirect, which unmounts the controller.
C11_LogoutAlwaysClears ==
    [][(lastOp'.op = "logout")
          => (token' = NoToken /\ lastOp'.nav /\ route' = "login" /\ ~mounted')]_vars

C11_Witness ==
    /\ lastOp.op = "logout"
    /\ token = NoToken
    /\ staleHist > 0
    /\ \E s \in Slots : sends[s].phase = "inflight" /\ sends[s].stale
    /\ \E s \in Slots : sends[s].phase = "timer" /\ sends[s].stale

\* C12: when the history fetch of a mounted controller succeeds before any send
\* was accepted, the message log is the returned sequence, element for element,
\* and the typing flag is false.
C12_HistoryLoadedExactly ==
    [][(lastOp'.op = "histOk" /\ lastOp'.live /\ sent = 0)
          => (messages' = lastOp'.data /\ ~isTyping')]_vars

C12_Witness ==
    /\ lastOp.op = "histOk" /\ lastOp.live
    /\ sent = 0
    /\ Len(lastOp.data) = 2
    /\ messages = lastOp.data
    /\ ~isTyping

C14_BlankSendChangesNothing ==
    [][(lastOp'.op \in SendOps /\ trim(inputText) = <<>>)
          => /\ ~lastOp'.nav /\ ~lastOp'.call
             /\ UNCHANGED <<token, route, mounted, messages, inputText, isTyping,
                            hist, staleHist, sends, sent>>]_vars

\* C15: when POST /chat of a mounted controller answers with an empty batch,
\* the typing flag is false at once, no timer is set (the slot of the send is
\* idle, the others are untouched) and the message log stays as it is.
C15_EmptyBatchEndsTyping ==
    [][(lastOp'.op = "sendOk" /\ lastOp'.live /\ lastOp'.data = <<>>)
          => /\ ~isTyping'
             /\ messages' = messages
             /\ \E s \in Slots :
                  /\ sends[s] = InFlight
                  /\ sends'[s] = Idle
                  /\ \A r \in Slots \ {s} : sends'[r] = sends[r]]_vars

C15_Witness ==
    /\ lastOp.op = "sendOk" /\ lastOp.live
    /\ lastOp.data = <<>>
    /\ ~isTyping
    /\ AllIdle
    /\ Len(messages) = 1
    /\ messages[1].sender = "user" /\ messages[1].id >= 0

\* a timer newly set for slot s in this step
TimerSet(s) ==
    /\ sends'[s].phase = "timer"
    /\ \/ sends[s].phase # "timer"
       \/ sends'[s].index # sends[s].index
       \/ sends'[s].bubbles # sends[s].bubbles

\* C16: a batch has at most one timer, set for its first fragment when its
\* response is handled, and set for fragment i+1 only in the step in which the
\* timer of fragment i fires and (on a mounted controller) fragment i is
\* appended; what is pending for a mounted controller never outnumbers its
\* accepted sends.
C16_OneTimerPerBatch ==
    /\ [](Cardinality({s \in Slots : LivePending(s)}) <= sent)
    /\ [][\A s \in Slots : TimerSet(s) =>
            \/ /\ sends'[s].index = 0
               /\ sends[s].phase = "inflight"
               /\ lastOp'.op = "sendOk"
               /\ messages' = messages
            \/ /\ sends'[s].index > 0
               /\ sends[s].phase = "timer"
               /\ sends'[s].bubbles = sends[s].bubbles
               /\ sends'[s].index = sends[s].index + 1
               /\ lastOp'.op = "reveal"
               /\ lastOp'.live =>
                    /\ Len(messages') = Len(messages) + 1
                    /\ messages'[Len(messages')].sender = "nila"
                    /\ messages'[Len(messages')].text
                          = sends[s].bubbles[sends[s].index + 1]]_vars

C16_Witness ==
    /\ lastOp.op = "reveal" /\ lastOp.live
    /\ \E s \in Slots : sends[s] = Timer(FALSE, << <<"x">>, <<"y">> >>, 1)
    /\ messages # <<>>
    /\ messages[Len(messages)].text = <<"x">>
    /\ messages[Len(messages)].sender = "nila"

\* C17: every accepted send and every reveal of a mounted controller puts its
\* Message at the end of the message log and leaves the Messages before it in
\* place, so the order of the log is the order of the appends, also for a send
\* accepted between two reveals and for batches revealed side by side.
C17_LogInAppendOrder ==
    [][(lastOp'.op \in {"send", "reveal"} /\ lastOp'.live)
          => /\ Len(messages') = Len(messages) + 1
             /\ IsPrefix(messages, messages')
             /\ messages'[Len(messages')].sender
                   = (IF lastOp'.op = "send" THEN "user" ELSE "nila")
             /\ lastOp'.op = "send" => messages'[Len(messages')].text = inputText]_vars

C17_Witness ==
    /\ lastOp.op = "reveal" /\ lastOp.live
    /\ Len(messages) >= 4
    /\ LET n == Len(messages)
       IN /\ messages[n - 3].sender = "user" /\ messages[n - 3].id >= 0
          /\ messages[n - 2].sender = "nila" /\ messages[n - 2].text = <<"x">>
          /\ messages[n - 1].sender = "user" /\ messages[n - 1].id >= 0
          /\ messages[n].sender = "nila" /\ messages[n].text = <<"y">>

\* C18: no two Messages of the message log have the same id.
C18_IdsDistinct ==
    \A i, j \in 1..Len(messages) : i # j => messages[i].id # messages[j].id

\* C19: while the typing flag of a mounted controller is false, none of its
\* sends is in flight and none of its reveal timers is pending.
C19_TypingOffMeansNothingPending ==
    (mounted /\ ~isTyping) => NoLivePending
====
